---- MODULE Spec2Model ----
(***************************************************************************)
(* Room session state machine and accuracy scorer of the WFD practice      *)
(* room.  The room document lives either in Firestore (lib/firestore.ts,   *)
(* lib/phrase-management.ts), where every operation is a getDoc followed   *)
(* by one or two updateDoc calls that other clients' calls may interleave  *)
(* with, or in the single-browser fallback store                           *)
(* (lib/firestore-fallback.ts), where every operation runs to completion.  *)
(* Strings are sequences of one-character strings; an optional field is a  *)
(* set with at most one element ({} = undefined).                          *)
(***************************************************************************)
EXTENDS Integers, Sequences, FiniteSets, TLC

VARIABLES listeners, wrapper, useFirebase, idIssued, room, calls, timers, now, started

vars == <<listeners, wrapper, useFirebase, idIssued, room, calls, timers, now, started>>

(***************************************************************************)
(* Bounds of the model.                                                    *)
(***************************************************************************)
\* seconds the clock runs for
MaxTime == 4
\* Firestore calls in flight at once
MaxCalls == 2
\* submissions counted in a room at once
MaxAttempts == 2
\* countdowns pending at once
MaxTimers == 2
\* operations called in one behaviour
MaxOps == 5

Users == {"u1", "u2"}

PhraseAB == <<"a", " ", "b">>
PhraseB == <<"b">>
AnswerBA == <<" ", "B", " ", " ", "a">>
AnswerB == <<"b">>

\* phrases a host passes to setTargetPhrase, '' included
Phrases == {<<>>, PhraseAB}
\* answers a participant passes to submitAnswer
Answers == {AnswerBA, AnswerB}
\* contents of the global phrase list read by setNextPhrase
PhraseLists == {<<>>, <<PhraseB, PhraseAB>>}

\* a timestamp whose value the program only displays
Stamp == "timestamp"

None == {}
Some(v) == {v}
The(o) == CHOOSE v \in o : TRUE

(***************************************************************************)
(* Accuracy scorer: calculateAccuracy.                                     *)
(***************************************************************************)
IsSpace(c) == c = " "

ToLower(c) == IF c = "A" THEN "a" ELSE IF c = "B" THEN "b" ELSE c

RECURSIVE TrimStart(_)
TrimStart(s) ==
  IF s = <<>> THEN <<>>
  ELSE IF IsSpace(Head(s)) THEN TrimStart(Tail(s)) ELSE s

RECURSIVE TrimEnd(_)
TrimEnd(s) ==
  IF s = <<>> THEN <<>>
  ELSE IF IsSpace(s[Len(s)]) THEN TrimEnd(SubSeq(s, 1, Len(s) - 1)) ELSE s

LowerCase(s) == [i \in 1..Len(s) |-> ToLower(s[i])]

\* replace(/\s+/g, ' ')
RECURSIVE CollapseSpaces(_)
CollapseSpaces(s) ==
  IF s = <<>> THEN <<>>
  ELSE IF IsSpace(Head(s))
       THEN <<" ">> \o CollapseSpaces(TrimStart(s))
       ELSE <<Head(s)>> \o CollapseSpaces(Tail(s))

normalizeText(text) == CollapseSpaces(LowerCase(TrimEnd(TrimStart(text))))

\* s.split(' '): the pieces between single spaces, empty pieces included
RECURSIVE SplitOnSpace(_, _)
SplitOnSpace(s, cur) ==
  IF s = <<>> THEN <<cur>>
  ELSE IF Head(s) = " "
       THEN <<cur>> \o SplitOnSpace(Tail(s), <<>>)
       ELSE SplitOnSpace(Tail(s), Append(cur, Head(s)))

Words(text) == SelectSeq(SplitOnSpace(normalizeText(text), <<>>), LAMBDA w : Len(w) > 0)

\* a count of the runs of w instead of its occurrences
WordCountOfRuns(ws, w) ==
  Cardinality({i \in 1..Len(ws) : ws[i] = w /\ (i = 1 \/ ws[i - 1] # w)})

\* value of a Map<string, number> built by counting: occurrences of w
WordCount(ws, w) == Cardinality({i \in 1..Len(ws) : ws[i] = w})

\* a lookup that finds no word
HasWordNowhere(ws, w) == FALSE

HasWord(ws, w) == \E i \in 1..Len(ws) : ws[i] = w

\* keys of the Map in insertion order: distinct words by first occurrence
RECURSIVE MapKeys(_)
MapKeys(ws) ==
  IF ws = <<>> THEN <<>>
  ELSE LET init == MapKeys(SubSeq(ws, 1, Len(ws) - 1))
           w == ws[Len(ws)]
       IN IF HasWord(init, w) THEN init ELSE Append(init, w)

Repeat(w, n) == [i \in 1..n |-> w]

\* the count of the reference taken for the smaller count
Min2First(a, b) == a

Min2(a, b) == IF a <= b THEN a ELSE b

\* the size of a difference taken for the larger of 0 and the difference
Max2Magnitude(a, b) == IF b >= a THEN b ELSE a - b

Max2(a, b) == IF a >= b THEN a ELSE b

\* keys.forEach(word => push word count[word] times)
RECURSIVE PushEach(_, _, _)
PushEach(keys, count, i) ==
  IF i > Len(keys) THEN <<>>
  ELSE Repeat(keys[i], count[keys[i]]) \o PushEach(keys, count, i + 1)

\* a reference without words scored as 100
RoundedAccuracyOfNoWords(correctWords, totalTargetWords) ==
  IF totalTargetWords > 0
  THEN (2 * correctWords * 10000 + totalTargetWords) \div (2 * totalTargetWords)
  ELSE 10000

\* Math.round(accuracy * 100) / 100, kept in hundredths of a percent
RoundedAccuracy(correctWords, totalTargetWords) ==
  IF totalTargetWords > 0
  THEN (2 * correctWords * 10000 + totalTargetWords) \div (2 * totalTargetWords)
  ELSE 0

calculateAccuracy(targetPhrase, userInput) ==
  LET targetWords == Words(targetPhrase)
      inputWords == Words(userInput)
      tKeys == MapKeys(targetWords)
      iKeys == MapKeys(inputWords)
      words == {targetWords[i] : i \in 1..Len(targetWords)}
                 \cup {inputWords[i] : i \in 1..Len(inputWords)}
      CorrectOf ==
        [w \in words |-> Min2(WordCount(targetWords, w), WordCount(inputWords, w))]
      MissingOf ==
        [w \in words |-> Max2(0, WordCount(targetWords, w) - WordCount(inputWords, w))]
      ExtraOf ==
        [w \in words |-> Max2(0, WordCount(inputWords, w) - WordCount(targetWords, w))]
      correct == PushEach(tKeys, CorrectOf, 1)
      missing == PushEach(tKeys, MissingOf, 1)
      extra == PushEach(iKeys, ExtraOf, 1)
      incorrect == SelectSeq(inputWords, LAMBDA w : ~HasWord(targetWords, w))
  IN [correct |-> correct,
      incorrect |-> incorrect,
      missing |-> missing,
      extra |-> extra,
      isFullyCorrect |-> (Len(missing) = 0 /\ Len(incorrect) = 0 /\ Len(extra) = 0),
      accuracy |-> RoundedAccuracy(Len(correct), Len(targetWords))]

(***************************************************************************)
(* The room document.                                                      *)
(***************************************************************************)
CountdownSeconds == 3

Nicknames == {"nick"}

EmptyMap == [u \in {} |-> 0]

Put(m, k, v) == [x \in (DOMAIN m) \cup {k} |-> IF x = k THEN v ELSE m[x]]

Without(m, k) == [x \in (DOMAIN m) \ {k} |-> m[x]]

\* no document under rooms/{roomId}
NoRoom ==
  [exists |-> FALSE, hostId |-> "", targetPhrase |-> <<>>, isActive |-> FALSE,
   participants |-> EmptyMap, countdownStartedAt |-> None,
   isCountingDown |-> FALSE, roundStartTime |-> None,
   currentPhraseIndex |-> None, showPhraseToParticipants |-> FALSE]

\* the participant record written by createRoom and joinRoom; counters,
\* completionTimes and submissionHistory that are not stored read as 0 / []
NewParticipant(nickname) ==
  [nickname |-> Some(nickname), status |-> "waiting", isTyping |-> FALSE,
   submission |-> None, accuracy |-> None, submittedAt |-> None,
   correctCount |-> 0, totalAttempts |-> 0,
   completionTimes |-> <<>>, averageTime |-> None, fastestTime |-> None,
   submissionHistory |-> <<>>]

\* the record that updating participants.<id>.status / .isTyping creates
\* when the document has no participants.<id> map
PartialParticipant ==
  [nickname |-> None, status |-> "waiting", isTyping |-> FALSE,
   submission |-> None, accuracy |-> None, submittedAt |-> None,
   correctCount |-> 0, totalAttempts |-> 0,
   completionTimes |-> <<>>, averageTime |-> None, fastestTime |-> None,
   submissionHistory |-> <<>>]

NewRoom(hostId, hostNickname, index) ==
  [exists |-> TRUE, hostId |-> hostId, targetPhrase |-> <<>>, isActive |-> TRUE,
   participants |-> Put(EmptyMap, hostId, NewParticipant(hostNickname)),
   countdownStartedAt |-> None, isCountingDown |-> FALSE,
   roundStartTime |-> None, currentPhraseIndex |-> index,
   showPhraseToParticipants |-> FALSE]

RECURSIVE SumSeq(_)
SumSeq(s) == IF s = <<>> THEN 0 ELSE Head(s) + SumSeq(Tail(s))

RECURSIVE MinSeq(_)
MinSeq(s) == IF Len(s) = 1 THEN s[1] ELSE Min2(Head(s), MinSeq(Tail(s)))

\* time data whose fastestTime is the time of the latest correct answer
TimeDataFastestIsLatest(participant, isFullyCorrect, roundStartTime, t) ==
  IF isFullyCorrect /\ roundStartTime # None
  THEN LET newCompletionTimes ==
             Append(participant.completionTimes, t - The(roundStartTime))
       IN [completionTimes |-> newCompletionTimes,
           averageTime |-> Some([num |-> SumSeq(newCompletionTimes),
                                 den |-> Len(newCompletionTimes)]),
           fastestTime |-> Some(t - The(roundStartTime))]
  ELSE [completionTimes |-> participant.completionTimes,
        averageTime |-> participant.averageTime,
        fastestTime |-> participant.fastestTime]

\* updatedTimeData of submitAnswer; averageTime is the quotient num / den
TimeData(participant, isFullyCorrect, roundStartTime, t) ==
  IF isFullyCorrect /\ roundStartTime # None
  THEN LET newCompletionTimes ==
             Append(participant.completionTimes, t - The(roundStartTime))
       IN [completionTimes |-> newCompletionTimes,
           averageTime |-> Some([num |-> SumSeq(newCompletionTimes),
                                 den |-> Len(newCompletionTimes)]),
           fastestTime |-> Some(MinSeq(newCompletionTimes))]
  ELSE [completionTimes |-> participant.completionTimes,
        averageTime |-> participant.averageTime,
        fastestTime |-> participant.fastestTime]

HistoryEntry(targetPhrase, answer, accuracy, phraseIndex) ==
  [phrase |-> targetPhrase, answer |-> answer, accuracy |-> accuracy,
   submittedAt |-> Stamp, phraseIndex |-> phraseIndex]

\* the participant record submitAnswer of firestore.ts builds from the room
\* it read; submittedAt is a server timestamp, filled in when written
SubmittedParticipant(r, uid, answer, t) ==
  LET accuracy == calculateAccuracy(r.targetPhrase, answer)
      currentParticipant == r.participants[uid]
      time == TimeData(currentParticipant, accuracy.isFullyCorrect, r.roundStartTime, t)
  IN [currentParticipant EXCEPT
        !.status = "submitted",
        !.submission = Some(answer),
        !.accuracy = Some(accuracy),
        !.submittedAt = None,
        !.isTyping = FALSE,
        !.correctCount = IF accuracy.isFullyCorrect THEN @ + 1 ELSE @,
        !.totalAttempts = @ + 1,
        !.submissionHistory =
           Append(@, HistoryEntry(r.targetPhrase, answer, accuracy, r.currentPhraseIndex)),
        !.completionTimes = time.completionTimes,
        !.averageTime = time.averageTime,
        !.fastestTime = time.fastestTime]

\* a reset that starts the attempts over and keeps the correct answers
ResetParticipantAttemptsCleared(participant) ==
  [nickname |-> participant.nickname, status |-> "waiting", isTyping |-> FALSE,
   submission |-> None, accuracy |-> None, submittedAt |-> None,
   correctCount |-> participant.correctCount,
   totalAttempts |-> 0,
   completionTimes |-> <<>>, averageTime |-> None, fastestTime |-> None,
   submissionHistory |-> <<>>]

\* resetParticipants of setNextPhrase
ResetParticipant(participant) ==
  [nickname |-> participant.nickname, status |-> "waiting", isTyping |-> FALSE,
   submission |-> None, accuracy |-> None, submittedAt |-> None,
   correctCount |-> participant.correctCount,
   totalAttempts |-> participant.totalAttempts,
   completionTimes |-> <<>>, averageTime |-> None, fastestTime |-> None,
   submissionHistory |-> <<>>]

\* participants.<id>.status = 'waiting', participants.<id>.isTyping = false
StatusReset(participants, ids) ==
  [x \in (DOMAIN participants) \cup ids |->
     IF x \in ids
     THEN IF x \in DOMAIN participants
          THEN [participants[x] EXCEPT !.status = "waiting", !.isTyping = FALSE]
          ELSE PartialParticipant
     ELSE participants[x]]

\* a deletion that leaves the accuracy of the last round in the record
FieldsDeletedButAccuracy(participants, delSubmission, delAccuracy, delSubmittedAt) ==
  [x \in DOMAIN participants |->
     [participants[x] EXCEPT
        !.submission = IF x \in delSubmission THEN None ELSE @,
        !.submittedAt = IF x \in delSubmittedAt THEN None ELSE @]]

\* deleteField() on participants.<id>.submission / .accuracy / .submittedAt
FieldsDeleted(participants, delSubmission, delAccuracy, delSubmittedAt) ==
  [x \in DOMAIN participants |->
     [participants[x] EXCEPT
        !.submission = IF x \in delSubmission THEN None ELSE @,
        !.accuracy = IF x \in delAccuracy THEN None ELSE @,
        !.submittedAt = IF x \in delSubmittedAt THEN None ELSE @]]

(***************************************************************************)
(* A call of a Firestore operation that has read the room and computed     *)
(* its update, and whose updateDoc has not reached the document yet.       *)
(***************************************************************************)
Call(op, caller) ==
  [op |-> op, caller |-> caller, pc |-> "update",
   participants |-> EmptyMap, phrase |-> <<>>, index |-> None,
   startedAt |-> None, resetIds |-> {},
   delSubmission |-> {}, delAccuracy |-> {}, delSubmittedAt |-> {},
   show |-> FALSE, participantId |-> "", error |-> ""]

\* an operation is called
Called == started < MaxOps /\ started' = started + 1

\* a call in flight, a timeout or the clock takes a step
Stepped == started' = started

CanStart == Called /\ Cardinality(calls) < MaxCalls

RECURSIVE AttemptsIn(_)
AttemptsIn(participants) ==
  IF DOMAIN participants = {} THEN 0
  ELSE LET x == CHOOSE y \in DOMAIN participants : TRUE
       IN participants[x].totalAttempts + AttemptsIn(Without(participants, x))

\* submissions are explored while the room holds fewer than MaxAttempts attempts
CanSubmit == AttemptsIn(room.participants) < MaxAttempts

\* assignments whose countdown timer is pending or still to be scheduled
PendingCountdowns ==
  Len(timers) + Cardinality({c \in calls : c.op \in {"setTargetPhrase", "setNextPhrase"}})

(***************************************************************************)
(* Database wrapper (lib/database.ts).  wrapper holds its module state:    *)
(* initialized, the two modules once imported, the number of times         *)
(* initializeModules was started, the calls waiting in ensureInitialized   *)
(* and the modules that operations were dispatched to.  useFirebase is its *)
(* flag.  A call that finds initialized = false runs initializeModules.    *)
(***************************************************************************)
NoWrapper ==
  [initialized |-> FALSE, runs |-> 0,
   firestoreModule |-> FALSE, fallbackModule |-> FALSE,
   pending |-> {}, dispatched |-> {}]

\* the wrapper after one initialization that selected Firestore or the fallback
Selected(firebase) ==
  [initialized |-> TRUE, runs |-> 1,
   firestoreModule |-> TRUE, fallbackModule |-> ~firebase,
   pending |-> {}, dispatched |-> {IF firebase THEN "firestore" ELSE "fallback"}]

WrapperOps == {"createRoom", "subscribeToRoom", "getCurrentUser"}

\* const dbModule = useFirebase ? firestoreModule : fallbackModule
dbModule(w, firebase) ==
  IF firebase
  THEN IF w.firestoreModule THEN "firestore" ELSE "null"
  ELSE IF w.fallbackModule THEN "fallback" ELSE "null"

\* an operation of the wrapper is called: await ensureInitialized()
wrapperCalled(op) ==
  /\ Called
  /\ Cardinality(wrapper.pending) < MaxCalls
  /\ wrapper' =
       IF wrapper.initialized
       THEN [wrapper EXCEPT !.dispatched = @ \cup {dbModule(wrapper, useFirebase)}]
       ELSE [wrapper EXCEPT
               !.pending = @ \cup {[id |-> started, op |-> op, pc |-> "initializeModules"]},
               !.runs = @ + 1]
  /\ UNCHANGED <<listeners, useFirebase, idIssued, room, calls, timers, now>>

\* initializeModules: authenticateUser of firestore.ts resolved in time
firebaseConnected(c) ==
  /\ c.pc = "initializeModules"
  /\ Stepped
  /\ useFirebase' = TRUE
  /\ wrapper' = [wrapper EXCEPT
                   !.firestoreModule = TRUE,
                   !.initialized = TRUE,
                   !.pending = @ \ {c},
                   !.dispatched = @ \cup {"firestore"}]
  /\ UNCHANGED <<listeners, idIssued, room, calls, timers, now>>

\* initializeModules: authenticateUser rejected or timed out; the fallback
\* module is being imported
firebaseUnavailable(c) ==
  /\ c.pc = "initializeModules"
  /\ Stepped
  /\ useFirebase' = FALSE
  /\ wrapper' = [wrapper EXCEPT
                   !.firestoreModule = TRUE,
                   !.pending = (@ \ {c}) \cup {[c EXCEPT !.pc = "importFallback"]}]
  /\ UNCHANGED <<listeners, idIssued, room, calls, timers, now>>

\* the import of firestore-fallback resolved; initialized = true
fallbackImported(c) ==
  /\ c.pc = "importFallback"
  /\ Stepped
  /\ wrapper' = [wrapper EXCEPT
                   !.fallbackModule = TRUE,
                   !.initialized = TRUE,
                   !.pending = @ \ {c},
                   !.dispatched =
                      @ \cup {dbModule([wrapper EXCEPT !.fallbackModule = TRUE], useFirebase)}]
  /\ UNCHANGED <<listeners, useFirebase, idIssued, room, calls, timers, now>>

(***************************************************************************)
(* Firestore backend (lib/firestore.ts, lib/phrase-management.ts).         *)
(* updateDoc rejects when the document does not exist; the call then ends  *)
(* without changing anything.                                              *)
(***************************************************************************)
Finished(c) == calls' = calls \ {c}

\* updateDoc(roomRef, { participants: c.participants })
ParticipantsWritten(c, participants) ==
  /\ c.pc = "update"
  /\ room' = IF room.exists THEN [room EXCEPT !.participants = participants] ELSE room
  /\ Finished(c) /\ Stepped
  /\ UNCHANGED <<listeners, wrapper, useFirebase, idIssued, timers, now>>

\* setTimeout(..., 3000) after the last updateDoc of an assignment resolved
CountdownScheduled == timers' = Append(timers, now + CountdownSeconds)

\* generateRoomId draws 6 characters with Math.random and createRoom writes
\* the room under them with setDoc: the model follows the room of one id,
\* createRoom is the first draw of that id and createRoomSameId a later one
createRoom(uid, hostNickname) ==
  /\ useFirebase /\ Called
  /\ ~idIssued
  /\ idIssued' = TRUE
  /\ room' = NewRoom(uid, hostNickname, None)
  /\ UNCHANGED <<listeners, wrapper, useFirebase, calls, timers, now>>

\* a join that writes the caller as the only participant
createRoomSameId(uid, hostNickname) ==
  /\ useFirebase /\ Called
  /\ idIssued
  /\ room' = NewRoom(uid, hostNickname, None)
  /\ UNCHANGED <<listeners, wrapper, useFirebase, idIssued, calls, timers, now>>

\* a join that writes the caller as the only participant
joinRoomReadAlone(uid, nickname) ==
  /\ useFirebase /\ CanStart
  /\ room.exists
  /\ room.isActive
  /\ calls' = calls \cup
       {[Call("joinRoom", uid) EXCEPT
           !.participants = Put(EmptyMap, uid, NewParticipant(nickname))]}
  /\ UNCHANGED <<listeners, wrapper, useFirebase, idIssued, room, timers, now>>

joinRoomRead(uid, nickname) ==
  /\ useFirebase /\ CanStart
  /\ room.exists
  /\ room.isActive
  /\ calls' = calls \cup
       {[Call("joinRoom", uid) EXCEPT
           !.participants = Put(room.participants, uid, NewParticipant(nickname))]}
  /\ UNCHANGED <<listeners, wrapper, useFirebase, idIssued, room, timers, now>>

joinRoomWrite(c) ==
  /\ c.op = "joinRoom"
  /\ ParticipantsWritten(c, c.participants)

\* updateData, participantUpdates and fieldsToDelete of setTargetPhrase
TargetPhraseCall(r, uid, phrase, index) ==
  [Call("setTargetPhrase", uid) EXCEPT
     !.phrase = phrase,
     !.index = index,
     !.resetIds = DOMAIN r.participants,
     !.delSubmission = {x \in DOMAIN r.participants : r.participants[x].submission # None},
     !.delAccuracy = {x \in DOMAIN r.participants : r.participants[x].accuracy # None},
     !.delSubmittedAt = {x \in DOMAIN r.participants : r.participants[x].submittedAt # None}]

\* the document after updateDoc(roomRef, allUpdates) at server time t
AllUpdatesApplied(r, c, t) ==
  [r EXCEPT
     !.targetPhrase = c.phrase,
     !.isCountingDown = TRUE,
     !.countdownStartedAt = Some(t),
     !.currentPhraseIndex = IF c.index # None THEN c.index ELSE @,
     !.participants = StatusReset(@, c.resetIds)]

\* the document after updateDoc(roomRef, fieldsToDelete)
FieldsToDeleteApplied(r, c) ==
  [r EXCEPT
     !.participants = FieldsDeleted(@, c.delSubmission, c.delAccuracy, c.delSubmittedAt)]

setTargetPhraseRead(uid, phrase, index) ==
  /\ useFirebase /\ CanStart
  /\ PendingCountdowns < MaxTimers
  /\ room.exists
  /\ room.hostId = uid
  /\ calls' = calls \cup {TargetPhraseCall(room, uid, phrase, index)}
  /\ UNCHANGED <<listeners, wrapper, useFirebase, idIssued, room, timers, now>>

HasFieldsToDelete(c) ==
  c.delSubmission \cup c.delAccuracy \cup c.delSubmittedAt # {}

\* updateDoc(roomRef, allUpdates)
setTargetPhraseUpdate(c) ==
  /\ c.op = "setTargetPhrase" /\ c.pc = "update"
  /\ IF room.exists
     THEN /\ room' = AllUpdatesApplied(room, c, now)
          /\ Stepped
          /\ IF HasFieldsToDelete(c)
             THEN /\ calls' = (calls \ {c}) \cup {[c EXCEPT !.pc = "delete"]}
                  /\ UNCHANGED timers
             ELSE /\ Finished(c)
                  /\ CountdownScheduled
     ELSE /\ Finished(c) /\ Stepped
          /\ UNCHANGED <<room, timers>>
  /\ UNCHANGED <<listeners, wrapper, useFirebase, idIssued, now>>

\* updateDoc(roomRef, fieldsToDelete)
setTargetPhraseDelete(c) ==
  /\ c.op = "setTargetPhrase" /\ c.pc = "delete"
  /\ Finished(c) /\ Stepped
  /\ IF room.exists
     THEN /\ room' = FieldsToDeleteApplied(room, c)
          /\ CountdownScheduled
     ELSE UNCHANGED <<room, timers>>
  /\ UNCHANGED <<listeners, wrapper, useFirebase, idIssued, now>>

\* an advance that stays on the current phrase
NextIndexKept(r, phraseList) ==
  LET currentIndex == IF r.currentPhraseIndex # None THEN The(r.currentPhraseIndex) ELSE 0
  IN currentIndex % Len(phraseList)

NextIndex(r, phraseList) ==
  LET currentIndex == IF r.currentPhraseIndex # None THEN The(r.currentPhraseIndex) ELSE 0
  IN (currentIndex + 1) % Len(phraseList)

\* phraseList is what getGlobalPhrases returns, indexed from 0
setNextPhraseRead(uid, phraseList) ==
  /\ useFirebase /\ CanStart
  /\ PendingCountdowns < MaxTimers
  /\ room.exists
  /\ room.hostId = uid
  /\ Len(phraseList) # 0
  /\ calls' = calls \cup
       {[Call("setNextPhrase", uid) EXCEPT
           !.phrase = phraseList[NextIndex(room, phraseList) + 1],
           !.index = Some(NextIndex(room, phraseList)),
           !.participants =
              [x \in DOMAIN room.participants |-> ResetParticipant(room.participants[x])],
           !.startedAt = Some(now)]}
  /\ UNCHANGED <<listeners, wrapper, useFirebase, idIssued, room, timers, now>>

setNextPhraseWrite(c) ==
  /\ c.op = "setNextPhrase" /\ c.pc = "update"
  /\ Finished(c) /\ Stepped
  /\ IF room.exists
     THEN /\ room' = [room EXCEPT
                !.targetPhrase = c.phrase,
                !.currentPhraseIndex = c.index,
                !.participants = c.participants,
                !.isCountingDown = TRUE,
                !.countdownStartedAt = c.startedAt]
          /\ CountdownScheduled
     ELSE UNCHANGED <<room, timers>>
  /\ UNCHANGED <<listeners, wrapper, useFirebase, idIssued, now>>

submitAnswerRead(uid, answer) ==
  /\ useFirebase /\ CanStart
  /\ room.exists
  /\ room.targetPhrase # <<>>
  /\ uid \in DOMAIN room.participants
  /\ CanSubmit
  /\ calls' = calls \cup
       {[Call("submitAnswer", uid) EXCEPT
           !.participants =
              Put(room.participants, uid, SubmittedParticipant(room, uid, answer, now))]}
  /\ UNCHANGED <<listeners, wrapper, useFirebase, idIssued, room, timers, now>>

submitAnswerWrite(c) ==
  /\ c.op = "submitAnswer"
  /\ ParticipantsWritten(c, [c.participants EXCEPT ![c.caller].submittedAt = Some(Stamp)])

\* a typing update that does not look for the caller's record
updateTypingStatusReadByAnyone(uid, isTyping) ==
  /\ useFirebase /\ CanStart
  /\ room.exists
  /\ calls' = calls \cup
       {[Call("updateTypingStatus", uid) EXCEPT
           !.participants =
              Put(room.participants, uid,
                  [(IF uid \in DOMAIN room.participants
                    THEN room.participants[uid] ELSE PartialParticipant)
                   EXCEPT !.status = IF isTyping THEN "typing" ELSE "waiting",
                          !.isTyping = isTyping])]}
  /\ UNCHANGED <<listeners, wrapper, useFirebase, idIssued, room, timers, now>>

updateTypingStatusRead(uid, isTyping) ==
  /\ useFirebase /\ CanStart
  /\ room.exists
  /\ uid \in DOMAIN room.participants
  /\ room.participants[uid].status # "submitted"
  /\ calls' = calls \cup
       {[Call("updateTypingStatus", uid) EXCEPT
           !.participants =
              [room.participants EXCEPT
                 ![uid].status = IF isTyping THEN "typing" ELSE "waiting",
                 ![uid].isTyping = isTyping]]}
  /\ UNCHANGED <<listeners, wrapper, useFirebase, idIssued, room, timers, now>>

updateTypingStatusWrite(c) ==
  /\ c.op = "updateTypingStatus"
  /\ ParticipantsWritten(c, c.participants)

\* a leave that treats the host as any other participant
leaveRoomReadAsParticipant(uid) ==
  /\ useFirebase /\ CanStart
  /\ room.exists
  /\ calls' = calls \cup
       {[Call("leaveRoom", uid) EXCEPT !.participants = Without(room.participants, uid)]}
  /\ UNCHANGED <<listeners, wrapper, useFirebase, idIssued, room, timers, now>>

leaveRoomRead(uid) ==
  /\ useFirebase /\ CanStart
  /\ room.exists
  /\ calls' = calls \cup
       {[Call(IF room.hostId = uid THEN "leaveRoomHost" ELSE "leaveRoom", uid) EXCEPT
           !.participants = Without(room.participants, uid)]}
  /\ UNCHANGED <<listeners, wrapper, useFirebase, idIssued, room, timers, now>>

\* a host's leave that removes the host's record and keeps the room
leaveRoomHostRecordRemoved(c) ==
  /\ c.op = "leaveRoomHost"
  /\ ParticipantsWritten(c, c.participants)

\* deleteDoc(roomRef)
leaveRoomDelete(c) ==
  /\ c.op = "leaveRoomHost"
  /\ room' = NoRoom
  /\ Finished(c) /\ Stepped
  /\ UNCHANGED <<listeners, wrapper, useFirebase, idIssued, timers, now>>

leaveRoomWrite(c) ==
  /\ c.op = "leaveRoom"
  /\ ParticipantsWritten(c, c.participants)

toggleShowPhraseToParticipantsRead(uid, show) ==
  /\ useFirebase /\ CanStart
  /\ room.exists
  /\ room.hostId = uid
  /\ calls' = calls \cup {[Call("toggleShowPhraseToParticipants", uid) EXCEPT !.show = show]}
  /\ UNCHANGED <<listeners, wrapper, useFirebase, idIssued, room, timers, now>>

toggleShowPhraseToParticipantsWrite(c) ==
  /\ c.op = "toggleShowPhraseToParticipants" /\ c.pc = "update"
  /\ room' = IF room.exists THEN [room EXCEPT !.showPhraseToParticipants = c.show] ELSE room
  /\ Finished(c) /\ Stepped
  /\ UNCHANGED <<listeners, wrapper, useFirebase, idIssued, timers, now>>

\* a removal that asks for no host
removeParticipantReadByAnyone(uid, participantId) ==
  /\ useFirebase /\ CanStart
  /\ room.exists
  /\ participantId # uid
  /\ calls' = calls \cup
       {[Call("removeParticipant", uid) EXCEPT
           !.participantId = participantId,
           !.participants = Without(room.participants, participantId)]}
  /\ UNCHANGED <<listeners, wrapper, useFirebase, idIssued, room, timers, now>>

removeParticipantRead(uid, participantId) ==
  /\ useFirebase /\ CanStart
  /\ room.exists
  /\ room.hostId = uid
  /\ participantId # uid
  /\ calls' = calls \cup
       {[Call("removeParticipant", uid) EXCEPT
           !.participantId = participantId,
           !.participants = Without(room.participants, participantId)]}
  /\ UNCHANGED <<listeners, wrapper, useFirebase, idIssued, room, timers, now>>

\* a removal that writes an empty participants map
removeParticipantWriteAll(c) ==
  /\ c.op = "removeParticipant"
  /\ ParticipantsWritten(c, EmptyMap)

removeParticipantWrite(c) ==
  /\ c.op = "removeParticipant"
  /\ ParticipantsWritten(c, c.participants)

RemoveAt(s, i) == SubSeq(s, 1, i - 1) \o SubSeq(s, i + 1, Len(s))

\* the setTimeout callback of setTargetPhrase / setNextPhrase
countdownTimeout(i) ==
  /\ useFirebase /\ Stepped
  /\ timers[i] <= now
  /\ timers' = RemoveAt(timers, i)
  /\ room' = IF room.exists
             THEN [room EXCEPT !.isCountingDown = FALSE, !.roundStartTime = Some(now)]
             ELSE room
  /\ UNCHANGED <<listeners, wrapper, useFirebase, idIssued, calls, now>>

\* a second passes
Tick ==
  /\ Stepped
  /\ now < MaxTime
  /\ now' = now + 1
  /\ UNCHANGED <<listeners, wrapper, useFirebase, idIssued, room, calls, timers>>

(***************************************************************************)
(* The listeners of the fallback store: the callbacks registered for the   *)
(* room, in the order of registration, and what each callback has been     *)
(* called with.  A callback is the closure a page effect passes to         *)
(* subscribeToRoom; it returns at its first await without touching the     *)
(* registry.                                                               *)
(***************************************************************************)
Callbacks == {"cb1", "cb2"}

\* listeners = {}, and no callback has been called
NoListeners ==
  [registered |-> <<>>, unsubscribed |-> {},
   calls |-> [cb \in Callbacks |-> 0],
   last |-> [cb \in Callbacks |-> None]]

Registered(l) == {l.registered[i] : i \in 1..Len(l.registered)}

\* callback(room)
CalledWith(l, cbs, r) ==
  [l EXCEPT
     !.calls = [cb \in Callbacks |-> IF cb \in cbs THEN @[cb] + 1 ELSE @[cb]],
     !.last = [cb \in Callbacks |-> IF cb \in cbs THEN Some(r) ELSE @[cb]]]

\* a notification that only reaches the listener registered first
NotifiedFirst(l, r) ==
  IF l.registered = <<>> THEN l ELSE CalledWith(l, {Head(l.registered)}, r)

\* roomListeners.forEach(callback => callback(room))
Notified(l, r) == CalledWith(l, Registered(l), r)

\* notifyListeners(roomId), after the mutation was stored
notifyListeners == listeners' = Notified(listeners, room')

\* listeners[roomId].filter(cb => cb !== callback)
RECURSIVE Filtered(_, _)
Filtered(registered, callback) ==
  IF registered = <<>> THEN <<>>
  ELSE IF Head(registered) = callback
       THEN Filtered(Tail(registered), callback)
       ELSE <<Head(registered)>> \o Filtered(Tail(registered), callback)

\* subscribeToRoom of the fallback store, with a callback of a new closure
subscribeToRoom(callback) ==
  /\ ~useFirebase /\ Stepped
  /\ callback \notin Registered(listeners) \cup listeners.unsubscribed
  /\ listeners' =
        CalledWith([listeners EXCEPT !.registered = Append(@, callback)],
                   {callback}, room)
  /\ UNCHANGED <<wrapper, useFirebase, idIssued, room, calls, timers, now>>

\* the function subscribeToRoom returned is called
unsubscribe(callback) ==
  /\ ~useFirebase /\ Stepped
  /\ callback \in Registered(listeners)
  /\ listeners' = [listeners EXCEPT
        !.registered = Filtered(@, callback),
        !.unsubscribed = @ \cup {callback}]
  /\ UNCHANGED <<wrapper, useFirebase, idIssued, room, calls, timers, now>>

(***************************************************************************)
(* Fallback backend (lib/firestore-fallback.ts): one browser, one identity *)
(* (currentUser, the creator of the room), every operation atomic.  Each   *)
(* operation reloads roomsData from localStorage, so a Date stored in the  *)
(* room comes back as a string.                                            *)
(***************************************************************************)
fallbackCreateRoom(uid, hostNickname) ==
  /\ ~useFirebase /\ Called
  /\ ~idIssued
  /\ idIssued' = TRUE
  /\ room' = NewRoom(uid, hostNickname, Some(0))
  /\ notifyListeners
  /\ UNCHANGED <<wrapper, useFirebase, calls, timers, now>>

\* the browser's one identity creates again
fallbackCreateRoomSameId(uid, hostNickname) ==
  /\ ~useFirebase /\ Called
  /\ idIssued
  /\ room.exists => uid = room.hostId
  /\ room' = NewRoom(uid, hostNickname, Some(0))
  /\ notifyListeners
  /\ UNCHANGED <<wrapper, useFirebase, idIssued, calls, timers, now>>

fallbackJoinRoom(uid, nickname) ==
  /\ ~useFirebase /\ Called
  /\ room.exists /\ uid = room.hostId
  /\ room.isActive
  /\ room' = [room EXCEPT !.participants = Put(@, uid, NewParticipant(nickname))]
  /\ notifyListeners
  /\ UNCHANGED <<wrapper, useFirebase, idIssued, calls, timers, now>>

fallbackSetTargetPhrase(uid, phrase) ==
  /\ ~useFirebase /\ Called
  /\ Len(timers) < MaxTimers
  /\ room.exists /\ uid = room.hostId
  /\ room' = [room EXCEPT
        !.participants =
           [x \in DOMAIN @ |->
              [@[x] EXCEPT !.status = "waiting", !.isTyping = FALSE,
                           !.submission = None, !.accuracy = None,
                           !.submittedAt = None]],
        !.targetPhrase = phrase,
        !.isCountingDown = TRUE,
        !.countdownStartedAt = Some(now)]
  /\ CountdownScheduled
  /\ notifyListeners
  /\ UNCHANGED <<wrapper, useFirebase, idIssued, calls, now>>

\* room.roundStartTime.getTime() throws on the reloaded string, so a fully
\* correct answer is only accepted while roundStartTime is not set
fallbackSubmitAnswer(uid, answer) ==
  /\ ~useFirebase /\ Called
  /\ room.exists /\ uid = room.hostId
  /\ room.targetPhrase # <<>>
  /\ uid \in DOMAIN room.participants
  /\ CanSubmit
  /\ LET accuracy == calculateAccuracy(room.targetPhrase, answer)
     IN /\ ~(accuracy.isFullyCorrect /\ room.roundStartTime # None)
        /\ room' = [room EXCEPT
              !.participants[uid] =
                 [@ EXCEPT
                    !.status = "submitted",
                    !.submission = Some(answer),
                    !.accuracy = Some(accuracy),
                    !.submittedAt = Some(Stamp),
                    !.isTyping = FALSE,
                    !.correctCount = IF accuracy.isFullyCorrect THEN @ + 1 ELSE @,
                    !.totalAttempts = @ + 1]]
  /\ notifyListeners
  /\ UNCHANGED <<wrapper, useFirebase, idIssued, calls, timers, now>>

fallbackUpdateTypingStatus(uid, isTyping) ==
  /\ ~useFirebase /\ Called
  /\ room.exists /\ uid = room.hostId
  /\ uid \in DOMAIN room.participants
  /\ room.participants[uid].status # "submitted"
  /\ room' = [room EXCEPT
        !.participants[uid].status = IF isTyping THEN "typing" ELSE "waiting",
        !.participants[uid].isTyping = isTyping]
  /\ notifyListeners
  /\ UNCHANGED <<wrapper, useFirebase, idIssued, calls, timers, now>>

fallbackLeaveRoom(uid) ==
  /\ ~useFirebase /\ Called
  /\ room.exists /\ uid = room.hostId
  /\ room' = [room EXCEPT
        !.participants = Without(@, uid),
        !.isActive = IF room.hostId = uid THEN FALSE ELSE @]
  /\ notifyListeners
  /\ UNCHANGED <<wrapper, useFirebase, idIssued, calls, timers, now>>

fallbackCountdownTimeout(i) ==
  /\ ~useFirebase /\ Stepped
  /\ timers[i] <= now
  /\ timers' = RemoveAt(timers, i)
  /\ room' = IF room.exists
             THEN [room EXCEPT !.isCountingDown = FALSE, !.roundStartTime = Some(now)]
             ELSE room
  /\ IF room.exists THEN notifyListeners ELSE UNCHANGED listeners
  /\ UNCHANGED <<wrapper, useFirebase, idIssued, calls, now>>

\* the page that called setTargetPhrase / setNextPhrase is closed: the
\* setTimeout callbacks it was to run and its listeners are gone with it
pageClosed ==
  /\ Stepped
  /\ timers # <<>>
  /\ timers' = <<>>
  /\ listeners' = NoListeners
  /\ UNCHANGED <<wrapper, useFirebase, idIssued, room, calls, now>>

(***************************************************************************)
(* Calls that throw: the operation read the room, threw before writing     *)
(* anything, and its caller has not caught the error yet.                  *)
(***************************************************************************)
RoomNotFound == "Room not found"
RoomNotActive == "Room is not active"
NoTargetPhrase == "No target phrase set"
NoPhrases == "No phrases in global list"
HostCannotRemoveThemselves == "Host cannot remove themselves"
OnlyHost ==
  [setTargetPhrase |-> "Only host can set target phrase",
   setNextPhrase |-> "Only host can set next phrase",
   toggleShowPhraseToParticipants |-> "Only host can toggle phrase visibility",
   removeParticipant |-> "Only host can remove participants"]
\* reading a field of an undefined participant, or getTime of a string
TypeError == "TypeError"

Thrown(op, uid, error) ==
  /\ calls' = calls \cup {[Call(op, uid) EXCEPT !.pc = "thrown", !.error = error]}
  /\ UNCHANGED <<listeners, wrapper, useFirebase, idIssued, room, timers, now>>

joinRoomThrows(uid) ==
  /\ useFirebase /\ CanStart
  /\ ~room.exists \/ ~room.isActive
  /\ Thrown("joinRoom", uid, IF ~room.exists THEN RoomNotFound ELSE RoomNotActive)

setTargetPhraseThrows(uid) ==
  /\ useFirebase /\ CanStart
  /\ ~room.exists \/ room.hostId # uid
  /\ Thrown("setTargetPhrase", uid,
            IF ~room.exists THEN RoomNotFound ELSE OnlyHost.setTargetPhrase)

setNextPhraseThrows(uid, phraseList) ==
  /\ useFirebase /\ CanStart
  /\ ~room.exists \/ room.hostId # uid \/ Len(phraseList) = 0
  /\ Thrown("setNextPhrase", uid,
            IF ~room.exists THEN RoomNotFound
            ELSE IF room.hostId # uid THEN OnlyHost.setNextPhrase
            ELSE NoPhrases)

submitAnswerThrows(uid) ==
  /\ useFirebase /\ CanStart
  /\ ~room.exists \/ room.targetPhrase = <<>> \/ uid \notin DOMAIN room.participants
  /\ Thrown("submitAnswer", uid,
            IF ~room.exists THEN RoomNotFound
            ELSE IF room.targetPhrase = <<>> THEN NoTargetPhrase
            ELSE TypeError)

toggleShowPhraseToParticipantsThrows(uid) ==
  /\ useFirebase /\ CanStart
  /\ ~room.exists \/ room.hostId # uid
  /\ Thrown("toggleShowPhraseToParticipants", uid,
            IF ~room.exists THEN RoomNotFound
            ELSE OnlyHost.toggleShowPhraseToParticipants)

removeParticipantThrows(uid, participantId) ==
  /\ useFirebase /\ CanStart
  /\ ~room.exists \/ room.hostId # uid \/ participantId = uid
  /\ calls' = calls \cup
       {[Call("removeParticipant", uid) EXCEPT
           !.participantId = participantId,
           !.pc = "thrown",
           !.error = IF ~room.exists THEN RoomNotFound
                     ELSE IF room.hostId # uid THEN OnlyHost.removeParticipant
                     ELSE HostCannotRemoveThemselves]}
  /\ UNCHANGED <<listeners, wrapper, useFirebase, idIssued, room, timers, now>>

\* the fallback's one identity calls; before it has created the room any
\* identity may be the browser's
fallbackJoinRoomThrows(uid) ==
  /\ ~useFirebase /\ CanStart
  /\ room.exists => uid = room.hostId
  /\ ~room.exists \/ ~room.isActive
  /\ Thrown("joinRoom", uid, IF ~room.exists THEN RoomNotFound ELSE RoomNotActive)

fallbackSetTargetPhraseThrows(uid) ==
  /\ ~useFirebase /\ CanStart
  /\ ~room.exists
  /\ Thrown("setTargetPhrase", uid, RoomNotFound)

fallbackSubmitAnswerThrows(uid, answer) ==
  /\ ~useFirebase /\ CanStart
  /\ room.exists => uid = room.hostId
  /\ \/ ~room.exists
     \/ room.targetPhrase = <<>>
     \/ uid \notin DOMAIN room.participants
     \/ /\ calculateAccuracy(room.targetPhrase, answer).isFullyCorrect
        /\ room.roundStartTime # None
  /\ Thrown("submitAnswer", uid,
            IF ~room.exists THEN RoomNotFound
            ELSE IF room.targetPhrase = <<>> THEN NoTargetPhrase
            ELSE TypeError)

\* catch (error) of the caller
Caught(c) ==
  /\ c.pc = "thrown"
  /\ Finished(c) /\ Stepped
  /\ UNCHANGED <<listeners, wrapper, useFirebase, idIssued, room, timers, now>>

(***************************************************************************)
(* Specifications.  Spec: the calls of the clients interleave at their     *)
(* awaits.  SeqSpec: a call starts only when no other call is in flight.   *)
(***************************************************************************)
Indexes == {None, Some(0)}

Init ==
  /\ useFirebase \in BOOLEAN
  /\ wrapper = Selected(useFirebase)
  /\ listeners = NoListeners
  /\ idIssued = FALSE
  /\ room = NoRoom
  /\ calls = {}
  /\ timers = <<>>
  /\ now = 0
  /\ started = 0

Read ==
  \/ \E uid \in Users, nickname \in Nicknames : joinRoomRead(uid, nickname)
  \/ \E uid \in Users, phrase \in Phrases, index \in Indexes :
        setTargetPhraseRead(uid, phrase, index)
  \/ \E uid \in Users, phraseList \in PhraseLists : setNextPhraseRead(uid, phraseList)
  \/ \E uid \in Users, answer \in Answers : submitAnswerRead(uid, answer)
  \/ \E uid \in Users, isTyping \in BOOLEAN : updateTypingStatusRead(uid, isTyping)
  \/ \E uid \in Users : leaveRoomRead(uid)
  \/ \E uid \in Users, show \in BOOLEAN : toggleShowPhraseToParticipantsRead(uid, show)
  \/ \E uid \in Users, participantId \in Users : removeParticipantRead(uid, participantId)

Write ==
  \/ \E c \in calls : joinRoomWrite(c)
  \/ \E c \in calls : setTargetPhraseUpdate(c)
  \/ \E c \in calls : setTargetPhraseDelete(c)
  \/ \E c \in calls : setNextPhraseWrite(c)
  \/ \E c \in calls : submitAnswerWrite(c)
  \/ \E c \in calls : updateTypingStatusWrite(c)
  \/ \E c \in calls : leaveRoomDelete(c)
  \/ \E c \in calls : leaveRoomWrite(c)
  \/ \E c \in calls : toggleShowPhraseToParticipantsWrite(c)
  \/ \E c \in calls : removeParticipantWrite(c)

Fallback ==
  \/ \E uid \in Users, nickname \in Nicknames : fallbackCreateRoom(uid, nickname)
  \/ \E uid \in Users, nickname \in Nicknames : fallbackJoinRoom(uid, nickname)
  \/ \E uid \in Users, phrase \in Phrases : fallbackSetTargetPhrase(uid, phrase)
  \/ \E uid \in Users, answer \in Answers : fallbackSubmitAnswer(uid, answer)
  \/ \E uid \in Users, isTyping \in BOOLEAN : fallbackUpdateTypingStatus(uid, isTyping)
  \/ \E uid \in Users : fallbackLeaveRoom(uid)

Create ==
  \E uid \in Users, nickname \in Nicknames : createRoom(uid, nickname)

Timeout ==
  \/ \E i \in 1..Len(timers) : countdownTimeout(i)
  \/ \E i \in 1..Len(timers) : fallbackCountdownTimeout(i)

Next == Create \/ Read \/ Fallback \/ Write \/ Timeout \/ Tick

Spec == Init /\ [][Next]_vars

SeqNext == Create \/ (calls = {} /\ Read) \/ Fallback \/ Write \/ Timeout \/ Tick

SeqSpec == Init /\ [][SeqNext]_vars

Throw ==
  \/ \E uid \in Users : joinRoomThrows(uid)
  \/ \E uid \in Users : setTargetPhraseThrows(uid)
  \/ \E uid \in Users, phraseList \in PhraseLists : setNextPhraseThrows(uid, phraseList)
  \/ \E uid \in Users : submitAnswerThrows(uid)
  \/ \E uid \in Users : toggleShowPhraseToParticipantsThrows(uid)
  \/ \E uid \in Users, participantId \in Users : removeParticipantThrows(uid, participantId)
  \/ \E uid \in Users : fallbackJoinRoomThrows(uid)
  \/ \E uid \in Users : fallbackSetTargetPhraseThrows(uid)
  \/ \E uid \in Users, answer \in Answers : fallbackSubmitAnswerThrows(uid, answer)

Catch == \E c \in calls : Caught(c)

\* ErrSpec: as SeqSpec, with the calls that throw
ErrNext ==
  \/ Create
  \/ (calls = {} /\ Read)
  \/ (calls = {} /\ Throw)
  \/ (calls = {} /\ Fallback)
  \/ Write
  \/ Catch
  \/ Timeout
  \/ Tick

ErrSpec == Init /\ [][ErrNext]_vars

CreateSameId ==
  \/ \E uid \in Users, nickname \in Nicknames : createRoomSameId(uid, nickname)
  \/ \E uid \in Users, nickname \in Nicknames : fallbackCreateRoomSameId(uid, nickname)

\* IdSpec: as SeqSpec, with room ids that may be drawn again
IdNext ==
  \/ Create
  \/ CreateSameId
  \/ (calls = {} /\ Read)
  \/ Fallback
  \/ Write
  \/ Timeout
  \/ Tick

IdSpec == Init /\ [][IdNext]_vars

\* LiveSpec: as SeqSpec, with clients that may go away; a write that was
\* sent arrives, the clock runs, and a timeout of an open page fires
LiveNext ==
  \/ Create
  \/ (calls = {} /\ Read)
  \/ Fallback
  \/ Write
  \/ Timeout
  \/ Tick
  \/ pageClosed

LiveSpec ==
  /\ Init /\ [][LiveNext]_vars
  /\ WF_vars(Write) /\ WF_vars(Timeout) /\ WF_vars(Tick)

(***************************************************************************)
(* ScoreSpec: the scorer over every reference and submission of up to      *)
(* MaxWords words.  The room has been created, the host has assigned the   *)
(* reference and the countdown is over; one Submit is called and scored.   *)
(***************************************************************************)
MaxWords == 3

ScoreWords == {<<"a">>, <<"b">>}

WordSeqs == UNION {[1..k -> ScoreWords] : k \in 0..MaxWords}

\* the words typed with one space between them
RECURSIVE Join(_)
Join(ws) ==
  IF ws = <<>> THEN <<>>
  ELSE IF Len(ws) = 1 THEN ws[1]
  ELSE ws[1] \o <<" ">> \o Join(Tail(ws))

ToUpper(c) == IF c = "a" THEN "A" ELSE IF c = "b" THEN "B" ELSE c

\* the words typed in capitals with two spaces after each
RECURSIVE Shouted(_)
Shouted(ws) ==
  IF ws = <<>> THEN <<>>
  ELSE [i \in 1..Len(ws[1]) |-> ToUpper(ws[1][i])] \o <<" ", " ">> \o Shouted(Tail(ws))

\* the texts typed as a phrase or as an answer
Texts == {Join(ws) : ws \in WordSeqs} \cup {<<" ">> \o Shouted(ws) : ws \in WordSeqs}

ScoreInit ==
  /\ useFirebase = TRUE
  /\ wrapper = Selected(useFirebase)
  /\ listeners = NoListeners
  /\ idIssued = TRUE
  /\ room \in {[NewRoom(hostId, nickname, None) EXCEPT
                  !.targetPhrase = text,
                  !.countdownStartedAt = Some(0),
                  !.roundStartTime = Some(CountdownSeconds)] :
                 hostId \in Users, nickname \in Nicknames, text \in Texts}
  /\ calls = {}
  /\ timers = <<>>
  /\ now = CountdownSeconds
  /\ started = MaxOps - 1

ScoreNext ==
  \/ \E uid \in Users, answer \in Texts : submitAnswerRead(uid, answer)
  \/ \E c \in calls : submitAnswerWrite(c)

ScoreSpec == ScoreInit /\ [][ScoreNext]_vars

(***************************************************************************)
(* Statistics shown to every observer of the room (lib/utils.ts,           *)
(* components/StatisticsPanel.tsx).  StatsSpec: the host has created the   *)
(* room, two more identities have joined, a phrase is assigned and its     *)
(* countdown is over; the three of them type and submit.                   *)
(***************************************************************************)
getUserStatus(participant) ==
  IF participant.status = "submitted"
  THEN IF participant.accuracy # None /\ The(participant.accuracy).isFullyCorrect
       THEN "correct"
       ELSE "incorrect"
  ELSE participant.status

\* the statistics counted over every participant, the host included
StatisticsPanelWithHost(r) ==
  LET status == [x \in DOMAIN r.participants |-> getUserStatus(r.participants[x])]
      participantsOnly == DOMAIN r.participants
  IN [totalParticipants |-> Cardinality(participantsOnly),
      waitingCount |-> Cardinality({x \in participantsOnly : status[x] = "waiting"}),
      typingCount |-> Cardinality({x \in participantsOnly : status[x] = "typing"}),
      submittedCount |->
        Cardinality({x \in participantsOnly : status[x] \in {"correct", "incorrect"}}),
      correctCount |-> Cardinality({x \in participantsOnly : status[x] = "correct"})]

\* participants of page.tsx with their getUserStatus, counted by StatisticsPanel
StatisticsPanel(r) ==
  LET status == [x \in DOMAIN r.participants |-> getUserStatus(r.participants[x])]
      participantsOnly == {x \in DOMAIN r.participants : x # r.hostId}
  IN [totalParticipants |-> Cardinality(participantsOnly),
      waitingCount |-> Cardinality({x \in participantsOnly : status[x] = "waiting"}),
      typingCount |-> Cardinality({x \in participantsOnly : status[x] = "typing"}),
      submittedCount |->
        Cardinality({x \in participantsOnly : status[x] \in {"correct", "incorrect"}}),
      correctCount |-> Cardinality({x \in participantsOnly : status[x] = "correct"})]

Guests == {"u2", "u3"}

StatsInit ==
  /\ useFirebase = TRUE
  /\ wrapper = Selected(useFirebase)
  /\ listeners = NoListeners
  /\ idIssued = TRUE
  /\ room \in {[NewRoom("u1", nickname, None) EXCEPT
                  !.participants =
                     [x \in {"u1"} \cup Guests |-> NewParticipant(nickname)],
                  !.targetPhrase = phrase,
                  !.countdownStartedAt = Some(0),
                  !.roundStartTime = Some(CountdownSeconds)] :
                 nickname \in Nicknames, phrase \in {PhraseAB, PhraseB}}
  /\ calls = {}
  /\ timers = <<>>
  /\ now = CountdownSeconds
  /\ started = MaxOps - 3

StatsNext ==
  \/ \E uid \in {"u1"} \cup Guests, answer \in Answers : submitAnswerRead(uid, answer)
  \/ \E c \in calls : submitAnswerWrite(c)
  \/ \E uid \in {"u1"} \cup Guests, isTyping \in BOOLEAN :
        updateTypingStatusRead(uid, isTyping)
  \/ \E c \in calls : updateTypingStatusWrite(c)

StatsSpec == StatsInit /\ [][StatsNext]_vars

\* WrapperSpec: the operations of one page call the wrapper from module load
WrapperInit ==
  /\ wrapper = NoWrapper
  /\ listeners = NoListeners
  /\ useFirebase = TRUE
  /\ idIssued = FALSE
  /\ room = NoRoom
  /\ calls = {}
  /\ timers = <<>>
  /\ now = 0
  /\ started = 0

WrapperNext ==
  \/ \E op \in WrapperOps : wrapperCalled(op)
  \/ \E c \in wrapper.pending : firebaseConnected(c)
  \/ \E c \in wrapper.pending : firebaseUnavailable(c)
  \/ \E c \in wrapper.pending : fallbackImported(c)

WrapperSpec == WrapperInit /\ [][WrapperNext]_vars

(***************************************************************************)
(* updateDoc on a document that does not exist rejects with the error      *)
(* not-found.  The operations whose catch block rethrows pass the error to *)
(* their caller; updateTypingStatus and leaveRoom log it and resolve.      *)
(***************************************************************************)
NoDocumentToUpdate == "No document to update"

\* catch (error) { console.error(...); throw error; }
updateDocRejected(c) ==
  /\ c.pc \in {"update", "delete"}
  /\ c.op \notin {"updateTypingStatus", "leaveRoom", "leaveRoomHost"}
  /\ ~room.exists
  /\ calls' = (calls \ {c}) \cup {[c EXCEPT !.pc = "thrown", !.error = NoDocumentToUpdate]}
  /\ Stepped
  /\ UNCHANGED <<listeners, wrapper, useFirebase, idIssued, room, timers, now>>

\* catch (error) { console.error(...); }
updateDocRejectionLogged(c) ==
  /\ c.pc = "update"
  /\ c.op \in {"updateTypingStatus", "leaveRoom"}
  /\ ~room.exists
  /\ Finished(c) /\ Stepped
  /\ UNCHANGED <<listeners, wrapper, useFirebase, idIssued, room, timers, now>>

WriteToMissing ==
  \/ \E c \in calls : updateDocRejected(c)
  \/ \E c \in calls : updateDocRejectionLogged(c)
  \/ \E c \in calls : ~room.exists /\ leaveRoomDelete(c)

\* RejSpec: the calls to Firestore interleave as in Spec, and the outcome
\* of a write to a deleted room is kept until its caller has caught it
RejNext ==
  \/ Create
  \/ Read
  \/ (room.exists /\ Write)
  \/ WriteToMissing
  \/ Catch
  \/ \E i \in 1..Len(timers) : countdownTimeout(i)
  \/ Tick

RejSpec == Init /\ [][RejNext]_vars

(***************************************************************************)
(* Properties of the room.                                                 *)
(***************************************************************************)
Participants == DOMAIN room.participants

\* the participants present before and after a step
Staying == (DOMAIN room.participants) \cap (DOMAIN room'.participants)

IsPrefix(s, t) == Len(s) <= Len(t) /\ SubSeq(t, 1, Len(s)) = s

\* C1: while isCountingDown is true no step of Submit or Update typing
\* status makes a participant's status 'submitted' or 'typing'; the call is
\* ignored and the status stays what it was.
C1_InputLockedDuringCountdown ==
  [][(room.exists /\ room.isCountingDown) =>
       \A x \in DOMAIN room'.participants :
          room'.participants[x].status \in {"submitted", "typing"} =>
            /\ x \in Participants
            /\ room.participants[x].status = room'.participants[x].status]_vars

\* C2: a countdown completion never takes effect on a later assignment's
\* countdown: isCountingDown stays true until CountdownSeconds after the
\* room's countdownStartedAt.
C2_CountdownLastsThreeSeconds ==
  (room.exists /\ room.countdownStartedAt # None
     /\ now < The(room.countdownStartedAt) + CountdownSeconds)
  => room.isCountingDown

\* C3: a Submit of one participant never overwrites the slot of another
\* participant who has submitted: when a submitAnswer call writes, the
\* record of every other submitted participant is left as it is.
C3_ConcurrentSubmitsKeepBothSlots ==
  [][\A c \in calls :
       (c.op = "submitAnswer" /\ c \notin calls' /\ room.exists) =>
          \A x \in Participants \ {c.caller} :
             room.participants[x].status = "submitted" =>
               /\ x \in DOMAIN room'.participants
               /\ room'.participants[x] = room.participants[x]]_vars

\* C4: in every reachable state a participant's status is 'submitted'
\* exactly when the record holds a submission with the accuracy of that
\* submission scored against the room's current targetPhrase.
C4_SubmittedIffScoredAgainstCurrentPhrase ==
  room.exists =>
    \A x \in Participants :
       LET p == room.participants[x]
       IN (p.status = "submitted") <=>
            /\ p.submission # None
            /\ p.accuracy = Some(calculateAccuracy(room.targetPhrase, The(p.submission)))


\* the cumulative fields of a participant record
Cumulative(p) ==
  <<p.submissionHistory, p.correctCount, p.totalAttempts, p.completionTimes>>

\* C5: a successful Assign phrase keeps the participants and their
\* submissionHistory, correctCount, totalAttempts and completionTimes at
\* every write it makes, and when it completes every participant has status
\* 'waiting' and no submission, accuracy or submittedAt.
C5_AssignResetsRoundKeepsCumulative ==
  [][/\ \A c \in calls :
          (c.op = "setTargetPhrase" /\ c \notin calls' /\ room.exists) =>
             /\ DOMAIN room'.participants = Participants
             /\ \A x \in Participants :
                   Cumulative(room'.participants[x]) = Cumulative(room.participants[x])
     /\ ((\/ \E c \in calls : c.op = "setTargetPhrase" /\ c \notin calls'
          \/ ~useFirebase)
         /\ Len(timers') > Len(timers)) =>
          /\ DOMAIN room'.participants = Participants
          /\ \A x \in Participants :
                LET p == room'.participants[x]
                IN /\ p.status = "waiting"
                   /\ p.submission = None /\ p.accuracy = None /\ p.submittedAt = None
                   /\ Cumulative(p) = Cumulative(room.participants[x])]_vars

\* an assignment has completed for a participant who had submitted: the
\* round fields are gone and the history of the submission is still there
C5_AssignedAfterSubmission ==
  /\ room.exists /\ calls = {} /\ room.isCountingDown
  /\ \E x \in Participants :
        LET p == room.participants[x]
        IN /\ p.submissionHistory # <<>> /\ p.totalAttempts > 0
           /\ p.status = "waiting" /\ p.submission = None /\ p.accuracy = None

\* C6: Advance to next phrase leaves the room as Assign phrase with the
\* same phrase and index would, cumulative statistics and history included.
C6_AdvanceEqualsAssign ==
  [][\A c \in calls :
       (c.op = "setNextPhrase" /\ c \notin calls' /\ room.exists) =>
          LET a == TargetPhraseCall(room, c.caller, c.phrase, c.index)
          IN room' = FieldsToDeleteApplied(
                        AllUpdatesApplied(room, a, The(c.startedAt)), a)]_vars

\* C7: every Submit that takes effect sets the caller's status to
\* 'submitted', stores the submission and its score against the target
\* phrase, adds one to totalAttempts, adds one to correctCount exactly when
\* the answer is fully correct, and appends exactly one history entry.
C7_SubmitRecordsAttempt ==
  [][\A x \in Staying :
       LET p == room.participants[x]
           q == room'.participants[x]
       IN (q # p /\ q.status = "submitted") =>
            /\ q.submission # None
            /\ q.accuracy = Some(calculateAccuracy(room.targetPhrase, The(q.submission)))
            /\ q.totalAttempts = p.totalAttempts + 1
            /\ q.correctCount =
                 p.correctCount + (IF The(q.accuracy).isFullyCorrect THEN 1 ELSE 0)
            /\ Len(q.submissionHistory) = Len(p.submissionHistory) + 1
            /\ IsPrefix(p.submissionHistory, q.submissionHistory)]_vars

\* C8: submissionHistory is append-only: over every step the history of a
\* participant who stays in the room keeps its earlier entries as a prefix.
C8_HistoryAppendOnly ==
  [][(room.exists /\ room'.exists) =>
       \A x \in Staying :
          IsPrefix(room.participants[x].submissionHistory,
                   room'.participants[x].submissionHistory)]_vars

\* C9: correctCount and totalAttempts of a participant who stays in the
\* room never decrease over any step.
C9_CountersNeverDecrease ==
  [][(room.exists /\ room'.exists) =>
       \A x \in Staying :
          /\ room'.participants[x].correctCount >= room.participants[x].correctCount
          /\ room'.participants[x].totalAttempts >= room.participants[x].totalAttempts]_vars

\* C10: in every reachable state every participant has
\* correctCount <= totalAttempts.
C10_CorrectAtMostAttempts ==
  room.exists =>
    \A x \in Participants :
       room.participants[x].correctCount <= room.participants[x].totalAttempts

\* a participant has submitted twice, once fully correct and once not
C10_OneCorrectOfTwo ==
  /\ room.exists
  /\ \E x \in Participants :
        /\ room.participants[x].correctCount = 1
        /\ room.participants[x].totalAttempts = 2

\* C11: Join room by an identity that already has a record in the room
\* keeps the cumulative data of that record: submissionHistory,
\* correctCount, totalAttempts and completionTimes are what they were.
C11_RejoinKeepsCumulative ==
  [][\A c \in calls :
       (c.op = "joinRoom" /\ c \notin calls' /\ room.exists
          /\ c.caller \in Participants) =>
          /\ c.caller \in DOMAIN room'.participants
          /\ Cumulative(room'.participants[c.caller])
               = Cumulative(room.participants[c.caller])]_vars

\* C12: a host-only operation (setTargetPhrase, setNextPhrase,
\* toggleShowPhraseToParticipants, removeParticipant) called by an identity
\* other than the room's hostId throws its 'Only host ...' error, and neither
\* the call nor the catch of it changes the room document or schedules a
\* countdown.
C12_NonHostForbidden ==
  [][/\ \A c \in calls' \ calls :
          (c.op \in DOMAIN OnlyHost /\ room.exists /\ c.caller # room.hostId) =>
             /\ c.pc = "thrown" /\ c.error = OnlyHost[c.op]
             /\ room' = room /\ timers' = timers
     /\ \A c \in calls \ calls' :
          c.pc = "thrown" => (room' = room /\ timers' = timers)]_vars

\* a participant who is not the host has called a host-only operation of a
\* room with a phrase, and the call has thrown
C12_ForbiddenThrown ==
  /\ room.exists /\ room.targetPhrase # <<>>
  /\ \E c \in calls :
        /\ c.op \in DOMAIN OnlyHost
        /\ c.caller \in Participants \ {room.hostId}
        /\ c.pc = "thrown" /\ c.error = OnlyHost[c.op]

\* C13: in every reachable state of a room whose targetPhrase is empty no
\* participant has status 'submitted' (a Submit without a phrase throws
\* 'No target phrase set' and changes nothing).
C13_NoPhraseNoSubmitted ==
  (room.exists /\ room.targetPhrase = <<>>) =>
    \A x \in Participants : room.participants[x].status # "submitted"

\* C14: Update typing status never changes the record of a participant
\* whose status is 'submitted': when an updateTypingStatus call writes, its
\* caller's record, if 'submitted', stays exactly as it is.
C14_TypingLeavesSubmittedAlone ==
  [][\A c \in calls :
       (c.op = "updateTypingStatus" /\ c \notin calls' /\ room.exists
          /\ c.caller \in Participants
          /\ room.participants[c.caller].status = "submitted") =>
          /\ c.caller \in DOMAIN room'.participants
          /\ room'.participants[c.caller] = room.participants[c.caller]]_vars

\* C15: after every assignment the room eventually leaves the countdown,
\* whether or not the client that made the assignment stays: a room that
\* is counting down comes to isCountingDown = false, unless the room is
\* deleted or a timeout for it is due after the last second of the clock.
C15_CountdownEnds ==
  (room.exists /\ room.isCountingDown)
  ~> \/ ~room.exists
     \/ ~room.isCountingDown
     \/ \E i \in 1..Len(timers) : timers[i] > MaxTime

\* C16: Join room throws 'Room not found' when there is no room and 'Room
\* is not active' when isActive is false, and changes nothing then (nobody
\* is added to an inactive room); otherwise its write adds the caller with
\* status 'waiting', correctCount 0 and totalAttempts 0 and leaves every
\* other participant's record and all room-level fields as they are.
C16_JoinRoomContract ==
  [][/\ \A c \in calls' \ calls :
          c.op = "joinRoom" =>
             /\ room' = room
             /\ ~room.exists => (c.pc = "thrown" /\ c.error = RoomNotFound)
             /\ (room.exists /\ ~room.isActive) =>
                   (c.pc = "thrown" /\ c.error = RoomNotActive)
             /\ (room.exists /\ room.isActive) => c.pc = "update"
     /\ \A c \in calls \ calls' :
          (c.op = "joinRoom" /\ c.pc = "thrown") => room' = room
     /\ (room.exists /\ ~room.isActive /\ room'.exists) =>
          DOMAIN room'.participants \subseteq Participants
     /\ \A c \in calls \ calls' :
          (c.op = "joinRoom" /\ c.pc = "update" /\ room.exists) =>
             /\ DOMAIN room'.participants = Participants \cup {c.caller}
             /\ \A x \in Participants \ {c.caller} :
                   room'.participants[x] = room.participants[x]
             /\ room'.participants[c.caller].status = "waiting"
             /\ room'.participants[c.caller].correctCount = 0
             /\ room'.participants[c.caller].totalAttempts = 0
             /\ [room' EXCEPT !.participants = room.participants] = room]_vars

\* somebody has joined a room whose host had already submitted
C16_JoinedBesideSubmitter ==
  /\ room.exists /\ calls = {}
  /\ room.hostId \in Participants
  /\ room.participants[room.hostId].totalAttempts > 0
  /\ \E x \in Participants \ {room.hostId} :
        /\ room.participants[x].nickname # None
        /\ room.participants[x].status = "waiting"
        /\ room.participants[x].totalAttempts = 0

\* C17: Leave by the host ends the session: its write deletes the room,
\* whenever the host's record goes the room is deleted or inactive, and a
\* deleted or inactive room stays so.  Leave by another identity removes
\* exactly the leaver's record and leaves every other record and all
\* room-level fields as they are.
C17_LeaveRoomContract ==
  [][/\ \A c \in calls \ calls' :
          (c.op \in {"leaveRoom", "leaveRoomHost"} /\ room.exists) =>
             IF c.caller = room.hostId
             THEN ~room'.exists
             ELSE /\ DOMAIN room'.participants = Participants \ {c.caller}
                  /\ \A x \in Participants \ {c.caller} :
                        room'.participants[x] = room.participants[x]
                  /\ [room' EXCEPT !.participants = room.participants] = room
     /\ (room.exists /\ room.hostId \in Participants /\ room'.exists
           /\ room.hostId \notin DOMAIN room'.participants) => ~room'.isActive
     /\ (room.exists /\ ~room.isActive /\ room'.exists) => ~room'.isActive
     /\ (idIssued /\ ~room.exists) => ~room'.exists]_vars

\* the host has left and the room is gone
C17_HostLeft ==
  idIssued /\ ~room.exists /\ calls = {}

\* C18: Remove participant called by the host with the host's own id throws
\* 'Host cannot remove themselves' and changes nothing; called by the host
\* with any other id its write deletes exactly that participant's record and
\* leaves every other record and all room-level fields as they are.
C18_RemoveParticipantContract ==
  [][/\ \A c \in calls' \ calls :
          (c.op = "removeParticipant" /\ room.exists /\ c.caller = room.hostId) =>
             /\ room' = room
             /\ IF c.participantId = c.caller
                THEN c.pc = "thrown" /\ c.error = HostCannotRemoveThemselves
                ELSE c.pc = "update"
     /\ \A c \in calls \ calls' :
          (c.op = "removeParticipant" /\ room.exists) =>
             IF c.pc = "thrown"
             THEN room' = room
             ELSE /\ DOMAIN room'.participants = Participants \ {c.participantId}
                  /\ \A x \in Participants \ {c.participantId} :
                        room'.participants[x] = room.participants[x]
                  /\ [room' EXCEPT !.participants = room.participants] = room]_vars

\* the host is removing another participant who has a record in the room
C18_RemovingParticipant ==
  /\ room.exists
  /\ room.hostId \in Participants
  /\ room.participants[room.hostId].totalAttempts > 0
  /\ \E c \in calls :
        /\ c.op = "removeParticipant" /\ c.pc = "update"
        /\ c.participantId \in Participants \ {room.hostId}

\* C19: Create room yields a room in Idle (targetPhrase empty, not counting
\* down, isActive) whose only participant is the host with correctCount 0
\* and totalAttempts 0, and it never replaces a room that exists: the
\* hostId of a room never changes.
C19_CreatedIdleHostFixed ==
  [][/\ (~room.exists /\ room'.exists) =>
          /\ room'.targetPhrase = <<>> /\ ~room'.isCountingDown /\ room'.isActive
          /\ DOMAIN room'.participants = {room'.hostId}
          /\ room'.participants[room'.hostId].correctCount = 0
          /\ room'.participants[room'.hostId].totalAttempts = 0
     /\ (room.exists /\ room'.exists) => room'.hostId = room.hostId]_vars

\* C20: once a phrase has been set the room never returns to Idle: over
\* every step of a room that stays, a non-empty targetPhrase stays
\* non-empty.
C20_NeverBackToIdle ==
  [][(room.exists /\ room.targetPhrase # <<>> /\ room'.exists) =>
       room'.targetPhrase # <<>>]_vars

\* the room's targetPhrase, countdown fields and participants
TerminalFields(r) ==
  <<r.targetPhrase, r.isCountingDown, r.countdownStartedAt, r.roundStartTime,
    r.participants>>

\* C21: deleted or deactivated is terminal: once the host has left (the room
\* is deleted, or it is inactive), no step changes the room's targetPhrase,
\* countdown fields or participants, a deleted room stays deleted and an
\* inactive room never becomes active again.
C21_TerminalRoomState ==
  [][(idIssued /\ (~room.exists \/ ~room.isActive)) =>
       /\ room'.exists = room.exists
       /\ room.exists =>
            /\ ~room'.isActive
            /\ TerminalFields(room') = TerminalFields(room)]_vars

\* C22: the fallback store is interchangeable with the Firestore store: a
\* step of the fallback backend leaves the Room and ParticipantData fields
\* that the same operation of firestore.ts leaves.  A created room is the
\* room createRoom of firestore.ts writes (currentPhraseIndex not set), and
\* a submission leaves the participant record submitAnswer of firestore.ts
\* builds (with its submissionHistory entry).
C22_FallbackAsFirestore ==
  [][~useFirebase =>
       /\ (~room.exists /\ room'.exists) =>
            \E nickname \in Nicknames :
               room' = NewRoom(room'.hostId, nickname, None)
       /\ \A uid \in Staying :
            (room.exists /\ room'.exists
               /\ room'.participants[uid].totalAttempts
                    > room.participants[uid].totalAttempts) =>
              \E answer \in Answers :
                 room'.participants[uid] =
                   [SubmittedParticipant(room, uid, answer, now)
                      EXCEPT !.submittedAt = Some(Stamp)]]_vars

\* C23: every error of an operation its caller is waiting on is surfaced to
\* the caller: whenever the updateDoc of a call is sent to a room that has
\* been deleted, the call ends as a thrown call of the same operation and
\* caller, with the error of the rejected write.
C23_ErrorsSurfaced ==
  [][\A c \in calls \ calls' :
        (c.pc \in {"update", "delete"} /\ c.op # "leaveRoomHost" /\ ~room.exists) =>
           \E d \in calls' \ calls :
              /\ d.op = c.op /\ d.caller = c.caller
              /\ d.pc = "thrown" /\ d.error = NoDocumentToUpdate]_vars

\* C24: a phrase assignment is applied as a unit: in no snapshot of the
\* room has a participant been reset to 'waiting' for the new targetPhrase
\* while still carrying the submission, accuracy or submittedAt of the
\* prior phrase.
C24_AssignmentAppliedAsUnit ==
  room.exists =>
    \A x \in Participants :
       room.participants[x].status = "waiting" =>
          /\ room.participants[x].submission = None
          /\ room.participants[x].accuracy = None
          /\ room.participants[x].submittedAt = None

\* the time fields of a participant record
TimeFields(p) == <<p.completionTimes, p.averageTime, p.fastestTime>>

\* p is the record q after a submission at time t of a round started at
\* roundStartTime: a fully correct one in a started round has the
\* completion time t - roundStartTime appended, the mean as averageTime and
\* the minimum as fastestTime; any other leaves the time fields as in q
CompletionTimeRecorded(q, p, roundStartTime, t) ==
  IF The(p.accuracy).isFullyCorrect /\ roundStartTime # None
  THEN /\ p.completionTimes = Append(q.completionTimes, t - The(roundStartTime))
       /\ p.averageTime = Some([num |-> SumSeq(p.completionTimes),
                                den |-> Len(p.completionTimes)])
       /\ p.fastestTime = Some(MinSeq(p.completionTimes))
  ELSE TimeFields(p) = TimeFields(q)

\* C25: Submit appends the completion time now - roundStartTime to the
\* participant's completionTimes if and only if the submission is fully
\* correct and roundStartTime is set, averageTime and fastestTime are then
\* the mean and the minimum of completionTimes, and a submission that is
\* not fully correct leaves the three fields unchanged.  The record is
\* computed so from the room the Submit read and written as computed, and a
\* Submit of a participant to a room with a target phrase does not throw.
C25_CompletionTimes ==
  [][/\ \A c \in calls' \ calls :
          (c.op = "submitAnswer" /\ c.pc = "update") =>
             CompletionTimeRecorded(room.participants[c.caller],
                                    c.participants[c.caller],
                                    room.roundStartTime, now)
     /\ \A c \in calls \ calls' :
          (c.op = "submitAnswer" /\ c.pc = "update" /\ room.exists) =>
             TimeFields(room'.participants[c.caller])
               = TimeFields(c.participants[c.caller])
     /\ \A uid \in Staying :
          (~useFirebase /\ room.exists /\ room'.exists
             /\ room'.participants[uid].totalAttempts
                  > room.participants[uid].totalAttempts) =>
            CompletionTimeRecorded(room.participants[uid],
                                   room'.participants[uid],
                                   room.roundStartTime, now)
     /\ \A c \in calls' \ calls :
          (c.op = "submitAnswer" /\ c.pc = "thrown") =>
             \/ ~room.exists
             \/ room.targetPhrase = <<>>
             \/ c.caller \notin Participants]_vars

\* currentPhraseIndex of r, an index that is not set counting as 0
PreviousIndex(r) ==
  IF r.currentPhraseIndex # None THEN The(r.currentPhraseIndex) ELSE 0

\* C26: Advance to next phrase by the host with an empty phrase list throws
\* 'No phrases in global list' and leaves the room unchanged; with a list
\* of n >= 1 phrases its write sets currentPhraseIndex to (previous
\* currentPhraseIndex + 1) mod n, which lies in 0..n-1, and targetPhrase to
\* the list entry at that index.  No other failure is possible for the host
\* of an existing room.
C26_AdvanceWrapsOrEmptyList ==
  [][/\ \A c \in calls' \ calls :
          (c.op = "setNextPhrase" /\ room.exists /\ c.caller = room.hostId) =>
             /\ room' = room
             /\ c.pc = "thrown" => c.error = NoPhrases
     /\ \A c \in calls \ calls' :
          (c.op = "setNextPhrase" /\ room.exists) =>
             IF c.pc = "thrown"
             THEN room' = room
             ELSE \E phraseList \in PhraseLists :
                    LET n == Len(phraseList)
                    IN /\ n >= 1
                       /\ The(room'.currentPhraseIndex) \in 0..(n - 1)
                       /\ The(room'.currentPhraseIndex) = (PreviousIndex(room) + 1) % n
                       /\ room'.targetPhrase = phraseList[The(room'.currentPhraseIndex) + 1]]_vars

\* the host has advanced past the end of the list, back to its first
\* phrase, and an advance with an empty list has thrown
C26_WrappedAndEmptyListThrown ==
  /\ room.exists
  /\ room.currentPhraseIndex = Some(0)
  /\ room.targetPhrase = PhraseB
  /\ \E c \in calls :
        c.op = "setNextPhrase" /\ c.pc = "thrown" /\ c.error = NoPhrases

\* the scored submissions of the room: reference, submission and result
Scored ==
  {[reference |-> room.targetPhrase,
    submission |-> The(room.participants[x].submission),
    result |-> The(room.participants[x].accuracy)] :
      x \in {y \in Participants : room.participants[y].accuracy # None}}

\* C27: scoring a reference against itself yields isFullyCorrect = true
\* with empty missing, incorrect and extra lists, and accuracy 100 when the
\* reference has at least one word and accuracy 0 when it has none.
C27_SelfScoreFullyCorrect ==
  \A s \in Scored :
     Words(s.submission) = Words(s.reference) =>
        /\ s.result.isFullyCorrect
        /\ s.result.missing = <<>>
        /\ s.result.incorrect = <<>>
        /\ s.result.extra = <<>>
        /\ s.result.accuracy = IF Len(Words(s.reference)) >= 1 THEN 100 * 100 ELSE 0

\* a reference of three words has been scored against itself, typed
\* differently
C27_SelfScored ==
  \E s \in Scored :
     /\ Words(s.submission) = Words(s.reference)
     /\ s.submission # s.reference
     /\ Len(Words(s.reference)) = 3

\* C28: the scorer conserves word counts: len(correct) + len(missing) is
\* the number of reference words, and len(correct) + len(extra) does not
\* exceed the number of submission words.
C28_WordCountsConserved ==
  \A s \in Scored :
     /\ Len(s.result.correct) + Len(s.result.missing) = Len(Words(s.reference))
     /\ Len(s.result.correct) + Len(s.result.extra) <= Len(Words(s.submission))

\* a submission has been scored that repeats one reference word and misses
\* another: correct, missing and extra are all non-empty
C28_ScoredWithMissingAndExtra ==
  \E s \in Scored :
     /\ s.result.correct # <<>>
     /\ s.result.missing # <<>>
     /\ s.result.extra # <<>>
     /\ s.result.incorrect = <<>>

\* the words of s and of t, each as often in s as in t
SameWords(s, t) ==
  /\ Len(s) = Len(t)
  /\ \A i \in 1..Len(s) :
        Cardinality({j \in 1..Len(s) : s[j] = s[i]})
          = Cardinality({j \in 1..Len(t) : t[j] = s[i]})

\* C29: word order is never penalized: for every reference, a submission
\* and any other submission with the same multiset of words get the same
\* accuracy, the same isFullyCorrect and the same multisets of correct,
\* missing, extra and incorrect words.
C29_WordOrderNotPenalized ==
  \A s \in Scored :
     \A other \in Texts :
        SameWords(Words(other), Words(s.submission)) =>
           LET result == calculateAccuracy(s.reference, other)
           IN /\ result.accuracy = s.result.accuracy
              /\ result.isFullyCorrect = s.result.isFullyCorrect
              /\ SameWords(result.correct, s.result.correct)
              /\ SameWords(result.missing, s.result.missing)
              /\ SameWords(result.extra, s.result.extra)
              /\ SameWords(result.incorrect, s.result.incorrect)

\* the reference 'a a b' has been scored against 'a b a', another order of
\* its words
C29_ReorderedScored ==
  \E s \in Scored :
     /\ s.reference = Join(<<<<"a">>, <<"a">>, <<"b">>>>)
     /\ s.submission = Join(<<<<"a">>, <<"b">>, <<"a">>>>)
     /\ s.result.isFullyCorrect

\* the occurrences of w in a list of words
Copies(ws, w) == Cardinality({i \in 1..Len(ws) : ws[i] = w})

\* C30: the scorer follows the multiset rule: for each word w with r
\* occurrences in the reference and s in the submission, correct holds
\* min(r, s) copies of w, missing max(0, r - s) and extra max(0, s - r),
\* while incorrect holds every occurrence of a submission word that does
\* not appear in the reference at all, so that a reference word supplied
\* too often is in extra and not in incorrect.
C30_MultisetRule ==
  \A s \in Scored :
     \A w \in ScoreWords :
        LET r == Copies(Words(s.reference), w)
            n == Copies(Words(s.submission), w)
        IN /\ Copies(s.result.correct, w) = IF r <= n THEN r ELSE n
           /\ Copies(s.result.missing, w) = IF r >= n THEN r - n ELSE 0
           /\ Copies(s.result.extra, w) = IF n >= r THEN n - r ELSE 0
           /\ Copies(s.result.incorrect, w) = IF r = 0 THEN n ELSE 0

\* the reference 'a' has been scored against 'a a b': one 'a' too many,
\* which is extra and not incorrect, and a 'b' that is both
C30_OverSuppliedScored ==
  \E s \in Scored :
     /\ s.reference = <<"a">>
     /\ s.submission = Join(<<<<"a">>, <<"a">>, <<"b">>>>)
     /\ s.result.extra = <<<<"a">>, <<"b">>>>
     /\ s.result.incorrect = <<<<"b">>>>

\* C31: the statistics count, over the participants other than the host,
\* 'submitted' as those with status submitted and 'fully correct' as those
\* with status submitted and a fully correct accuracy; a participant is
\* shown 'correct' or 'incorrect' only when submitted and otherwise with
\* the raw waiting / typing status; fully correct <= submitted <= total;
\* and with two joined participants of whom one has submitted a fully
\* correct answer and the other an incorrect one, submitted = 2 and fully
\* correct = 1.
C31_Statistics ==
  room.exists =>
    LET stats == StatisticsPanel(room)
        others == Participants \ {room.hostId}
        submitted == {x \in others : room.participants[x].status = "submitted"}
        correct == {x \in submitted :
                      /\ room.participants[x].accuracy # None
                      /\ The(room.participants[x].accuracy).isFullyCorrect}
    IN /\ stats.submittedCount = Cardinality(submitted)
       /\ stats.correctCount = Cardinality(correct)
       /\ stats.correctCount <= stats.submittedCount
       /\ stats.submittedCount <= stats.totalParticipants
       /\ \A x \in Participants :
            IF room.participants[x].status = "submitted"
            THEN getUserStatus(room.participants[x]) \in {"correct", "incorrect"}
            ELSE getUserStatus(room.participants[x]) = room.participants[x].status
       /\ (Cardinality(others) = 2 /\ submitted = others /\ Cardinality(correct) = 1) =>
            stats.submittedCount = 2 /\ stats.correctCount = 1

\* the two participants who joined have submitted, one a fully correct
\* answer and the other an incorrect one
C31_OneCorrectOneIncorrect ==
  /\ room.exists
  /\ Cardinality(Participants \ {room.hostId}) = 2
  /\ \A x \in Participants \ {room.hostId} : room.participants[x].status = "submitted"
  /\ Cardinality({x \in Participants \ {room.hostId} :
                    The(room.participants[x].accuracy).isFullyCorrect}) = 1
  /\ StatisticsPanel(room).submittedCount = 2
  /\ StatisticsPanel(room).correctCount = 1

\* C32: a completion time is measured from the roundStartTime stamped at
\* the end of the countdown of the phrase being answered: whenever a Submit
\* computes a new completion time, the roundStartTime it read was stamped
\* after the countdown of the current targetPhrase had started, never left
\* over from the round of an earlier phrase.
C32_CompletionTimeOfCurrentRound ==
  [][\A c \in calls' \ calls :
        (/\ c.op = "submitAnswer" /\ c.pc = "update"
         /\ Len(c.participants[c.caller].completionTimes)
              > Len(room.participants[c.caller].completionTimes)) =>
           /\ room.roundStartTime # None
           /\ room.countdownStartedAt # None
           /\ The(room.roundStartTime) > The(room.countdownStartedAt)]_vars

\* C33: a participant who was removed or who left never reappears in the
\* room's participants unless that identity joins again: an identity
\* without a record gets one only by the write of its own Join room.
C33_RemovedStaysRemoved ==
  [][(room.exists /\ room'.exists) =>
       \A x \in (DOMAIN room'.participants) \ Participants :
          \E c \in calls \ calls' : c.op = "joinRoom" /\ c.caller = x]_vars

\* C34: when two identities join the same active room concurrently and
\* both calls succeed, both are in participants afterwards and nobody who
\* was in the room is dropped: the write of a Join room keeps every
\* participant of the room it is written to, the other joiner included.
C34_ConcurrentJoinsKeepEverybody ==
  [][\A c \in calls \ calls' :
        (c.op = "joinRoom" /\ c.pc = "update" /\ room.exists /\ room'.exists) =>
           /\ c.caller \in DOMAIN room'.participants
           /\ Participants \subseteq DOMAIN room'.participants]_vars

\* C35: in every reachable state of an existing room with isActive = true
\* the room's hostId is a key of its participants map.
C35_ActiveRoomHasHostRecord ==
  (room.exists /\ room.isActive) => room.hostId \in Participants

\* the host is alone in the active room again while a typing update of a
\* participant who is no longer in it is still in flight
C35_HostAloneAfterParticipantWent ==
  /\ room.exists /\ room.isActive
  /\ Participants = {room.hostId}
  /\ \E c \in calls : c.op = "updateTypingStatus" /\ c.caller # room.hostId

\* C36: the database wrapper selects its backend at most once:
\* initializeModules is started a single time, also when operations are
\* called before the initialization has finished, and every operation of
\* the session is dispatched to the same backend.
C36_BackendSelectedOnce ==
  /\ wrapper.runs <= 1
  /\ Cardinality(wrapper.dispatched) <= 1

\* C37: isFullyCorrect is true exactly when the reference and the
\* submission contain the same multiset of words; every word occurrence in
\* incorrect is also in extra, so isFullyCorrect is already determined by
\* missing and extra being empty.
C37_FullyCorrectIffSameWords ==
  \A s \in Scored :
     /\ s.result.isFullyCorrect
          <=> SameWords(Words(s.reference), Words(s.submission))
     /\ \A w \in ScoreWords :
          Copies(s.result.incorrect, w) <= Copies(s.result.extra, w)
     /\ s.result.isFullyCorrect
          <=> (s.result.missing = <<>> /\ s.result.extra = <<>>)

\* a submission with a word that is not in the reference has been scored:
\* nothing is missing, and the word is incorrect and extra
C37_ScoredWithIncorrectWord ==
  \E s \in Scored :
     /\ s.result.missing = <<>>
     /\ s.result.incorrect # <<>>
     /\ s.result.incorrect = s.result.extra
     /\ ~s.result.isFullyCorrect

\* C38: in every reachable room state and for every participant, the
\* number of entries in completionTimes is at most correctCount,
\* averageTime and fastestTime are present exactly when completionTimes is
\* non-empty, and fastestTime <= averageTime.
C38_TimeStatistics ==
  room.exists =>
    \A x \in Participants :
       LET p == room.participants[x]
       IN /\ Len(p.completionTimes) <= p.correctCount
          /\ (p.averageTime # None) <=> (p.completionTimes # <<>>)
          /\ (p.fastestTime # None) <=> (p.completionTimes # <<>>)
          /\ (p.completionTimes # <<>>) =>
                The(p.fastestTime) * The(p.averageTime).den
                   <= The(p.averageTime).num

\* a participant has two completion times that differ, so the fastest
\* time is strictly below the average
C38_TwoDifferentTimes ==
  /\ room.exists
  /\ \E x \in Participants :
        LET p == room.participants[x]
        IN /\ Len(p.completionTimes) = 2
           /\ p.completionTimes[1] # p.completionTimes[2]
           /\ The(p.fastestTime) * The(p.averageTime).den
                 < The(p.averageTime).num

(***************************************************************************)
(* The fallback store with pages that subscribe to the room and            *)
(* unsubscribe from it.                                                    *)
(***************************************************************************)
ListenInit ==
  /\ useFirebase = FALSE
  /\ wrapper = Selected(useFirebase)
  /\ listeners = NoListeners
  /\ idIssued = FALSE
  /\ room = NoRoom
  /\ calls = {}
  /\ timers = <<>>
  /\ now = 0
  /\ started = MaxOps - 3

ListenNext ==
  \/ Fallback
  \/ \E i \in 1..Len(timers) : fallbackCountdownTimeout(i)
  \/ Tick
  \/ \E callback \in Callbacks : subscribeToRoom(callback)
  \/ \E callback \in Callbacks : unsubscribe(callback)

ListenSpec == ListenInit /\ [][ListenNext]_vars

\* a call of an operation of the store or a countdown timeout has run
Mutated == started' # started \/ Len(timers') < Len(timers)

\* C39: in the fallback store, subscribing to a room delivers the room's
\* current snapshot (or null) immediately, every later mutation of the
\* room (create, join, assign phrase, countdown completion, submit, typing
\* update, leave) delivers its post-mutation snapshot to every currently
\* registered listener, and a listener is never called again after its
\* unsubscribe function has run.
C39_ListenersNotified ==
  [][/\ \A cb \in Registered(listeners') \ Registered(listeners) :
           /\ listeners'.calls[cb] = listeners.calls[cb] + 1
           /\ listeners'.last[cb] = Some(room)
     /\ Mutated =>
           \A cb \in Registered(listeners) :
              /\ listeners'.calls[cb] = listeners.calls[cb] + 1
              /\ listeners'.last[cb] = Some(room')
     /\ \A cb \in listeners.unsubscribed :
           /\ cb \notin Registered(listeners')
           /\ listeners'.calls[cb] = listeners.calls[cb]
           /\ listeners'.last[cb] = listeners.last[cb]]_vars

\* one listener subscribed before the room was created and got null, was
\* notified and has unsubscribed; the other has since been called with the
\* room after a countdown completed and a later mutation
C39_OneGoneOneNotified ==
  /\ room.exists /\ room.roundStartTime # None
  /\ \E cb \in listeners.unsubscribed, other \in Registered(listeners) :
        /\ listeners.calls[cb] >= 2
        /\ listeners.calls[other] > listeners.calls[cb]
        /\ listeners.last[cb] # Some(room)
        /\ listeners.last[other] = Some(room)

(***************************************************************************)
(* Calls that return before they write: updateTypingStatus returns when    *)
(* the room, or the caller's record, is missing or the caller has          *)
(* submitted; the promise it returned resolves later.                      *)
(***************************************************************************)
NothingToUpdate(uid) ==
  IF room.exists /\ uid \in DOMAIN room.participants
  THEN room.participants[uid].status = "submitted"
  ELSE TRUE

Returned(op, uid) ==
  /\ calls' = calls \cup {[Call(op, uid) EXCEPT !.pc = "returned"]}
  /\ UNCHANGED <<listeners, wrapper, useFirebase, idIssued, room, timers, now>>

updateTypingStatusReturns(uid) ==
  /\ useFirebase /\ CanStart
  /\ NothingToUpdate(uid)
  /\ Returned("updateTypingStatus", uid)

fallbackUpdateTypingStatusReturns(uid) ==
  /\ ~useFirebase /\ CanStart
  /\ room.exists => uid = room.hostId
  /\ NothingToUpdate(uid)
  /\ Returned("updateTypingStatus", uid)

\* the await of the caller resumes
Resolved(c) ==
  /\ c.pc = "returned"
  /\ Finished(c) /\ Stepped
  /\ UNCHANGED <<listeners, wrapper, useFirebase, idIssued, room, timers, now>>

Return ==
  \/ \E uid \in Users : updateTypingStatusReturns(uid)
  \/ \E uid \in Users : fallbackUpdateTypingStatusReturns(uid)

Resolve == \E c \in calls : Resolved(c)

\* QuietSpec: as ErrSpec, with the calls that return without writing
QuietNext ==
  \/ Create
  \/ (calls = {} /\ Read)
  \/ (calls = {} /\ Throw)
  \/ (calls = {} /\ Return)
  \/ (calls = {} /\ Fallback)
  \/ Write
  \/ Catch
  \/ Resolve
  \/ Timeout
  \/ Tick

QuietSpec == Init /\ [][QuietNext]_vars

\* C40: Submit and Update typing status called by an identity that has no
\* record in the room's participants never create a participant record:
\* Submit fails with an error and Update typing status does nothing, and
\* the room document is unchanged in both cases.
C40_NoRecordNoWrite ==
  [][/\ \A c \in calls' \ calls :
           (/\ c.op \in {"submitAnswer", "updateTypingStatus"}
            /\ room.exists /\ c.caller \notin Participants) =>
              /\ c.op = "submitAnswer" => (c.pc = "thrown" /\ c.error # "")
              /\ c.op = "updateTypingStatus" => c.pc = "returned"
              /\ room' = room
     /\ \A c \in calls \ calls' :
           c.pc \in {"thrown", "returned"} => room' = room]_vars

\* a participant that left the room with a phrase assigned has called
\* Submit, which threw on the missing record, and the room has the other
\* participant only
C40_SubmitOfLeaverThrown ==
  /\ room.exists /\ room.targetPhrase # <<>>
  /\ Participants # {}
  /\ \E c \in calls :
        /\ c.op = "submitAnswer" /\ c.pc = "thrown" /\ c.error = TypeError
        /\ c.caller \notin Participants

====
